---- MODULE Spec2Model ----
(***************************************************************************)
(* Model of the polytrack daily volatility-score pipeline:                 *)
(*   main/scraper.py           get_ois, get_day_price_change               *)
(*   scripts/backfill.py       process_single_day, backfill_scores         *)
(*   main/backfill.py          process_single_day (older variant)          *)
(*   scripts/hourly-update.py  main                                        *)
(*   main/scripts/hourly-update.py  main (older variant)                   *)
(*                                                                         *)
(* Number representation.  Prices are integers in units of 0.0001 (a price *)
(* of 0.1 is 1000).  A raw price change is an integer in units of 0.0001   *)
(* percent.  A value that Python rounds with round(x, 3) is an integer in  *)
(* units of 0.001 ("milli"): Round3 and RoundMean do the conversion.       *)
(***************************************************************************)
EXTENDS Integers, Sequences, FiniteSets, TLC

VARIABLES
    \* ---- get_day_price_change (one call) ----
    gpc_pc,        \* "idle" | "request" | "sleep" | "returned"
    attempt,       \* loop variable of `for attempt in range(3)`
    sleeps,        \* number of time.sleep(1) calls made by the call
    respLog,       \* the responses the call's requests received, in order
    gpcResult      \* the value the call returned (raw units), when returned

priceVars == <<gpc_pc, attempt, sleeps, respLog, gpcResult>>

VARIABLES
    \* ---- get_ois (one call) ----
    markets,       \* the `markets` argument: NoMarkets or GivenMarkets(list)
    unix_timestamp,\* the `unix_timestamp` argument: TRUE when one is given
    top_n,         \* the `top_n` argument: 0 for None
    upstream,      \* the subgraph's rows for the query, in descending-amount order
    ois_pc,        \* "idle" | "loop" | "returned"
    skip,          \* the paging offset
    result,        \* the running result list
    oisReturn,     \* the list the call returned, when returned
    pageLog        \* per page fetched: what block resolution and the query did

oisVars == <<markets, unix_timestamp, top_n, upstream, ois_pc, skip, result,
             oisReturn, pageLog>>

VARIABLES
    \* ---- the scripts: backfill and hourly update ----
    program,       \* the program that runs: "none" | "backfill" | "backfill_main"
                   \*   | "hourly" | "hourly_main"
    catalog,       \* backfill: the market catalog shared by the workers
    dates,         \* backfill: the list of days handed to the pool
    results,       \* backfill: per position of `dates`, <<>> or <<the worker's result>>
    completed,     \* backfill: the positions of `dates` in the order the workers
                   \*   finished them
    outSeries,     \* backfill: the series written, once written
    bf_pc,         \* backfill: "idle" | "pool" | "written"
    clockDay,      \* hourly: the civil day the clock shows
    snapshot,      \* hourly: the file data/top10/<clockDay>.json (the run opens no
                   \*   other day's file, so only today's is kept)
    scoresFile,    \* hourly: the content of data/daily_scores.json ([] when missing)
    lastRun        \* hourly: what the last run of main() did

scoreVars == <<program, catalog, dates, results, completed, outSeries, bf_pc, clockDay,
               snapshot, scoresFile, lastRun>>

VARIABLES
    \* ---- one call of filter_markets_by_date ----
    flt_pc,        \* "idle" | "call" | "returned" | "raised"
    flt_markets,   \* the all_markets_data argument
    flt_start,     \* the start_date argument
    flt_end,       \* the end_date argument
    flt_out        \* the list returned

filterVars == <<flt_pc, flt_markets, flt_start, flt_end, flt_out>>

VARIABLES
    \* ---- one call of get_block_number ----
    blk_pc,        \* "idle" | "call" | "request" | "sleep" | "returned" | "raised"
    blk_key,       \* ETHERSCAN_API_KEY: "unset" | "empty" | "set"
    blk_attempt,   \* the loop variable `attempt`
    blk_slept,     \* total time slept
    blk_log,       \* the responses to the requests sent so far
    blk_result     \* the value returned

blockVars == <<blk_pc, blk_key, blk_attempt, blk_slept, blk_log, blk_result>>

utilVars == <<filterVars, blockVars>>

vars == <<priceVars, oisVars, scoreVars, utilVars>>

(***************************************************************************)
(* Bounds of the model.                                                    *)
(***************************************************************************)
MaxHist == 3                 \* longest price history a response carries

MaxRows == 3                 \* most rows the open-interest subgraph holds

MaxTopN == 3                 \* largest top_n a get_ois call is given

\* The top_n that process_single_day and the hourly update pass to get_ois.
\* The source passes 10; the model scales it down so that a catalog of
\* three markets has a market ranked below the cut.
TopN == 2

MaxMarkets == 2              \* most markets a catalog handed to the filter holds

MaxDay == 2                  \* civil days are 1..MaxDay

\* The smallest page size of get_ois.  The source uses 100
\* (max(top_n or 100, 100)); the model scales it down so that a query of
\* MaxRows rows spans more than one page.
BatchFloor == 2

(***************************************************************************)
(* Program constants.                                                      *)
(***************************************************************************)
MAX_RETRIES == 3             \* utils.py, the attempts of get_block_number
RETRY_DELAY == 1             \* utils.py, the sleep between two attempts
PriceAttempts == 3           \* range(3) in get_day_price_change
PctScale == 100              \* the factor in end_price - start_price * 100
RoundDigits == 3             \* round(x, 3)
ValueThreshold == 8          \* `if v > 8` / `if avg > 8`
MoverThreshold == 10         \* abs(priceChange) > 10

\* ------------------------------------------------------------------------
\* The state of a component that is not running
\* ------------------------------------------------------------------------
\* the `markets` argument: None, or a list
NoMarkets == [given |-> FALSE, list |-> <<>>]

GivenMarkets(list) == [given |-> TRUE, list |-> list]

PriceIdle ==
    /\ gpc_pc = "idle"
    /\ attempt = 0
    /\ sleeps = 0
    /\ respLog = <<>>
    /\ gpcResult = 0

OisIdle ==
    /\ markets = NoMarkets
    /\ unix_timestamp = FALSE
    /\ top_n = 0
    /\ upstream = <<>>
    /\ ois_pc = "idle"
    /\ skip = 0
    /\ result = <<>>
    /\ oisReturn = <<>>
    /\ pageLog = <<>>

NoFile == [exists |-> FALSE, members |-> <<>>]

NoRun == [ran |-> FALSE, scraped |-> FALSE, ranked |-> FALSE, wrote |-> FALSE]

ScoreIdle ==
    /\ program = "none"
    /\ catalog = <<>>
    /\ dates = <<>>
    /\ results = <<>>
    /\ completed = <<>>
    /\ outSeries = <<>>
    /\ bf_pc = "idle"
    /\ clockDay = 1
    /\ snapshot = NoFile
    /\ scoresFile = <<>>
    /\ lastRun = NoRun

FilterIdle ==
    /\ flt_pc = "idle"
    /\ flt_markets = <<>>
    /\ flt_start = 0
    /\ flt_end = 0
    /\ flt_out = <<>>

None == [none |-> TRUE, n |-> 0]

Some(k) == [none |-> FALSE, n |-> k]

BlockIdle ==
    /\ blk_pc = "idle"
    /\ blk_key = "unset"
    /\ blk_attempt = 1
    /\ blk_slept = 0
    /\ blk_log = <<>>
    /\ blk_result = None

UtilIdle == FilterIdle /\ BlockIdle

\* ------------------------------------------------------------------------
\* Arithmetic helpers
\* ------------------------------------------------------------------------
Abs(x) == IF x < 0 THEN -x ELSE x

Min(a, b) == IF a <= b THEN a ELSE b

Max(a, b) == IF a >= b THEN a ELSE b

RECURSIVE Pow10(_)
Pow10(k) == IF k = 0 THEN 1 ELSE 10 * Pow10(k - 1)

\* one rounded unit ("milli") is 10^-RoundDigits; a raw unit is a tenth of it
MilliPerUnit == Pow10(RoundDigits)

RawPerMilli == Pow10(1)

\* n / d rounded to the nearest integer, exact ties to the even neighbour
\* (Python's round); d > 0
RoundHalfEven(n, d) ==
    LET q == n \div d
        r == n % d
    IN  IF 2 * r < d THEN q
        ELSE IF 2 * r > d THEN q + 1
        ELSE IF q % 2 = 0 THEN q ELSE q + 1

\* round(change, 3) of a raw change, in milli
Round3(raw) == RoundHalfEven(raw, RawPerMilli)

RECURSIVE SumSeq(_)
SumSeq(s) == IF s = <<>> THEN 0 ELSE Head(s) + SumSeq(Tail(s))

\* ------------------------------------------------------------------------
\* get_ois                                    main/scraper.py 139-219
\* ------------------------------------------------------------------------
NoId == 0

EventIds == {"e1", "e2"}

\* raw subgraph amounts (fixed-point, 10^6 per unit)
RawAmounts == {30000000, 50000000}

AmountDivisor == 1000000

\* line 180: float(m["amount"]) / 1_000_000
ScaleAmount(raw) == raw \div AmountDivisor

\* line 199: the ids sent in the where clause
condition_ids(mkts) ==
    {mkts.list[i].conditionId :
        i \in {j \in 1..Len(mkts.list) : mkts.list[j].conditionId # NoId}}

\* line 200 and line 193: markets_by_id.get(id, {}).get("event_ids", []);
\* a dict comprehension keeps the last market of a given conditionId
EventsOf(mkts, id) ==
    IF id \notin condition_ids(mkts) THEN {}
    ELSE LET last == CHOOSE i \in 1..Len(mkts.list) :
                        /\ mkts.list[i].conditionId = id
                        /\ \A j \in (i + 1)..Len(mkts.list) : mkts.list[j].conditionId # id
         IN  mkts.list[last].event_ids

\* a page size that ignores top_n
BatchSizeFloorOnly(topn) == BatchFloor

\* line 202
BatchSize(topn) == Max(IF topn # 0 THEN topn ELSE BatchFloor, BatchFloor)

\* lines 147-185: one page.  blockOk: get_block_number returned a block;
\* gqlOk: the GraphQL request succeeded and its body parsed
fetch_batch(rows, tsGiven, batch_size, skp, blockOk, gqlOk) ==
    IF tsGiven /\ ~blockOk THEN <<>>
    ELSE IF ~gqlOk THEN <<>>
    ELSE LET last == Min(skp + batch_size, Len(rows))
         IN  [i \in 1..Max(last - skp, 0) |->
                 [id |-> rows[skp + i].id, amount |-> ScaleAmount(rows[skp + i].amount)]]

\* lines 190-197: the loop of dedupe_shared_events, `seen` starting empty
RECURSIVE DedupeFrom(_, _, _, _)
DedupeFrom(mkts, rows, seen, out) ==
    IF rows = <<>> THEN out
    ELSE LET r  == Head(rows)
             ev == EventsOf(mkts, r.id)
         IN  IF ev = {} \/ ev \cap seen = {}
             THEN DedupeFrom(mkts, Tail(rows), seen \cup ev, Append(out, r))
             ELSE DedupeFrom(mkts, Tail(rows), seen, out)

\* lines 187-197
dedupe_shared_events(mkts, rows) ==
    IF ~mkts.given THEN rows ELSE DedupeFrom(mkts, rows, {}, <<>>)

Ids(rows) == {rows[i].id : i \in 1..Len(rows)}

\* lines 210-214: append the rows not yet in the result, stopping at top_n
RECURSIVE AcceptRows(_, _, _)
AcceptRows(res, rows, topn) ==
    IF rows = <<>> THEN [result |-> res, full |-> FALSE]
    ELSE LET r == Head(rows)
         IN  IF r.id \in Ids(res)
             THEN AcceptRows(res, Tail(rows), topn)
             ELSE LET res2 == Append(res, r)
                  IN  IF topn # 0 /\ Len(res2) >= topn
                      THEN [result |-> res2, full |-> TRUE]
                      ELSE AcceptRows(res2, Tail(rows), topn)

\* result[:top_n]
Truncate(res, topn) == SubSeq(res, 1, Min(Len(res), topn))

\* lines 206-219: one iteration of the `while True` loop, from the state
\* [skip, result]; gives the next state and, when the call returns, its value
OisIteration(mkts, rows, tsGiven, topn, st, blockOk, gqlOk) ==
    LET batch_size == BatchSize(topn)
        batch == fetch_batch(rows, tsGiven, batch_size, st.skip, blockOk, gqlOk)
        final(res) == IF topn # 0 THEN Truncate(res, topn) ELSE res
    IN  IF batch = <<>>
        THEN [skip |-> st.skip, result |-> st.result, returned |-> TRUE,
              value |-> final(st.result)]
        ELSE LET acc == AcceptRows(st.result, dedupe_shared_events(mkts, batch), topn)
             IN  IF acc.full
                 THEN [skip |-> st.skip, result |-> acc.result, returned |-> TRUE,
                       value |-> Truncate(acc.result, topn)]
                 ELSE IF Len(batch) < batch_size
                 THEN [skip |-> st.skip, result |-> acc.result, returned |-> TRUE,
                       value |-> final(acc.result)]
                 ELSE [skip |-> st.skip + batch_size, result |-> acc.result,
                       returned |-> FALSE, value |-> <<>>]

\* the whole call, given what each page's block resolution and query will
\* do (env[i] for page i; pages past the end of env succeed)
RECURSIVE OisLoop(_, _, _, _, _, _, _)
OisLoop(mkts, rows, tsGiven, topn, st, env, page) ==
    LET e  == IF page <= Len(env) THEN env[page] ELSE [blockOk |-> TRUE, gqlOk |-> TRUE]
        nx == OisIteration(mkts, rows, tsGiven, topn, st, e.blockOk, e.gqlOk)
    IN  IF nx.returned THEN nx.value
        ELSE OisLoop(mkts, rows, tsGiven, topn, nx, env, page + 1)

get_ois(mkts, rows, tsGiven, topn, env) ==
    OisLoop(mkts, rows, tsGiven, topn, [skip |-> 0, result |-> <<>>], env, 1)

\* the rows the subgraph can hold: ids 1..n in descending-amount order
AmountProfiles(n) ==
    {a \in [1..n -> RawAmounts] : \A i \in 1..(n - 1) : a[i] >= a[i + 1]}

OisMarket(id, ev) == [conditionId |-> id, event_ids |-> ev]

OisInit ==
    /\ PriceIdle
    /\ UtilIdle
    /\ ScoreIdle
    /\ \E n \in 0..MaxRows :
         /\ \E a \in AmountProfiles(n) :
              upstream = [i \in 1..n |-> [id |-> i, amount |-> a[i]]]
         /\ \/ markets = NoMarkets
            \/ \E ev \in [1..n -> SUBSET EventIds] :
                 markets = GivenMarkets([i \in 1..n |-> OisMarket(i, ev[i])])
    /\ unix_timestamp \in BOOLEAN
    /\ top_n \in 0..MaxTopN
    /\ ois_pc = "loop"
    /\ skip = 0
    /\ result = <<>>
    /\ oisReturn = <<>>
    /\ pageLog = <<>>

\* one pass through the body of the paging loop
OisPage ==
    /\ ois_pc = "loop"
    /\ \E blockOk \in (IF unix_timestamp THEN BOOLEAN ELSE {TRUE}), gqlOk \in BOOLEAN :
         LET nx == OisIteration(markets, upstream, unix_timestamp, top_n,
                                [skip |-> skip, result |-> result], blockOk, gqlOk)
         IN  /\ (~blockOk => gqlOk)   \* no request is sent once resolution has failed
             /\ skip' = nx.skip
             /\ result' = nx.result
             /\ ois_pc' = IF nx.returned THEN "returned" ELSE "loop"
             /\ oisReturn' = IF nx.returned THEN nx.value ELSE oisReturn
             /\ pageLog' = Append(pageLog, [blockOk |-> blockOk, gqlOk |-> gqlOk])
    /\ UNCHANGED <<markets, unix_timestamp, top_n, upstream>>
    /\ UNCHANGED <<priceVars, scoreVars, utilVars>>

OisNext == OisPage

SpecOis == OisInit /\ [][OisNext]_vars

\* ------------------------------------------------------------------------
\* Claims about get_ois
\* ------------------------------------------------------------------------
SharesEvent(mkts, a, b) == EventsOf(mkts, a) \cap EventsOf(mkts, b) # {}

BlockFailedAt(i) == ~pageLog[i].blockOk

\* C2: for a get_ois call given a market list, however the upstream rows
\* fall into pages, no two entries of the returned list share a
\* parent-event identifier.
C2_NoSharedEvent ==
    (ois_pc = "returned" /\ markets.given) =>
        \A i, j \in 1..Len(oisReturn) :
            i < j => ~SharesEvent(markets, oisReturn[i].id, oisReturn[j].id)

\* C3: when get_ois is called with a point-in-time and a block resolution
\* made during the call fails, on the first page or on a later one, the
\* call returns the empty list.
C3_BlockFailureReturnsEmpty ==
    (/\ ois_pc = "returned"
     /\ unix_timestamp
     /\ \E i \in 1..Len(pageLog) : BlockFailedAt(i)) => oisReturn = <<>>

\* a is b with some elements left out, order kept
RECURSIVE IsSubseq(_, _)
IsSubseq(a, b) ==
    IF a = <<>> THEN TRUE
    ELSE IF b = <<>> THEN FALSE
    ELSE IF Head(a) = Head(b) THEN IsSubseq(Tail(a), Tail(b))
    ELSE IsSubseq(a, Tail(b))

\* the upstream rows as fetch_batch hands them on, in query order
UpstreamEntries ==
    [i \in 1..Len(upstream) |->
        [id |-> upstream[i].id, amount |-> ScaleAmount(upstream[i].amount)]]

WithinTopN(res) ==
    /\ Len(res) <= top_n
    /\ \A i, j \in 1..Len(res) : i < j => res[i].id # res[j].id
    /\ IsSubseq(res, UpstreamEntries)
    /\ \A i, j \in 1..Len(res) : i < j => res[i].amount >= res[j].amount

ResultWithinTopN ==
    top_n # 0 =>
        /\ WithinTopN(result)
        /\ ois_pc = "returned" => (oisReturn = result /\ WithinTopN(oisReturn))

\* the page the last pass fetched: the rows from the old skip on, at most
\* max(N, page floor) of them, or nothing when the request failed
PageFetched ==
    LET e == pageLog'[Len(pageLog')]
        size == Max(top_n, BatchFloor)
    IN  IF ~e.blockOk \/ ~e.gqlOk THEN <<>>
        ELSE SubSeq(upstream, skip + 1, Min(skip + size, Len(upstream)))

StopsExactly ==
    (top_n # 0 /\ ois_pc = "loop" /\ pageLog' # pageLog) =>
        /\ ois_pc' = "returned" <=>
              \/ Len(result') >= top_n
              \/ PageFetched = <<>>
              \/ Len(PageFetched) < Max(top_n, BatchFloor)
        /\ ois_pc' = "loop" => skip' = skip + Max(top_n, BatchFloor)

\* C13: for a get_ois call with top_n = N given, at every point of the
\* paging loop and at return the result has length <= N, holds no
\* conditionId twice and is a subsequence of the upstream descending-amount
\* row order; the loop stops as soon as N entries are accepted, or a page is
\* empty, or a page is shorter than the page size max(N, page floor), and
\* goes on to the next page otherwise.
C13_BoundedOrderedPaging ==
    /\ []ResultWithinTopN
    /\ [][StopsExactly]_vars

\* a call with N = 2 that needed a second page to accept its second entry
C13_Witness ==
    /\ ois_pc = "returned"
    /\ top_n = 2
    /\ Len(pageLog) = 2
    /\ Len(oisReturn) = 2

\* ------------------------------------------------------------------------
\* get_day_price_change                       main/scraper.py 223-257
\* ------------------------------------------------------------------------
FailureKinds == {"http_error", "timeout", "malformed"}

Prices == {0, 600, 1000}

RECURSIVE SeqsUpTo(_, _)
SeqsUpTo(S, n) ==
    IF n = 0 THEN {<<>>}
    ELSE LET shorter == SeqsUpTo(S, n - 1)
         IN  shorter \cup {Append(s, x) : s \in {t \in shorter : Len(t) = n - 1}, x \in S}

Histories == SeqsUpTo(Prices, MaxHist)

\* what one request can come back with: a failure (raise_for_status, a
\* timeout, a body that does not parse) or a body carrying a history
Responses == [kind : FailureKinds] \cup [kind : {"ok"}, hist : Histories]

\* lines 244-249: the value computed from a fetched history
PriceChangeLastBucket(hist) ==
    IF Len(hist) < 2 THEN 0
    ELSE hist[Len(hist)] - hist[1] * PctScale

PriceChangeOf(hist) ==
    IF Len(hist) < 2 THEN 0
    ELSE LET start_price == hist[1]
             end_price   == hist[Len(hist) - 1]
         IN  end_price - start_price * PctScale

\* line 250: `except Exception` catches every failure of the try block
Caught(kind) == kind \in FailureKinds

\* lines 251-255: does a failed attempt sleep and go round again?
RetryAlways(att) == TRUE

RetryAfterFailure(att) == att < PriceAttempts - 1

\* one iteration of the loop body for attempt `att` with response `resp`:
\* "return" a value, "retry" after a sleep, or "raise" to the caller
PriceAttempt(resp, att) ==
    IF resp.kind = "ok"
    THEN [outcome |-> "return", value |-> PriceChangeOf(resp.hist)]
    ELSE IF ~Caught(resp.kind)
    THEN [outcome |-> "raise", value |-> 0]
    ELSE IF RetryAfterFailure(att)
    THEN [outcome |-> "retry", value |-> 0]
    ELSE [outcome |-> "return", value |-> 0]

\* the whole call as a function of the responses its requests will get
\* (line 257, the return after the loop, is reached by no path: the third
\* attempt always returns)
RECURSIVE PriceLoop(_, _)
PriceLoop(script, att) ==
    IF att >= PriceAttempts THEN 0
    ELSE LET step == PriceAttempt(script[att + 1], att)
         IN  IF step.outcome = "retry" THEN PriceLoop(script, att + 1)
             ELSE step.value

get_day_price_change(script) == PriceLoop(script, 0)

\* ------------------------------------------------------------------------
\* Markets, catalogs and the inputs of a day       main/scraper.py 55-76
\* ------------------------------------------------------------------------
NoToken == ""

Absent == [kind |-> "absent", t |-> 0]

Malformed == [kind |-> "malformed", t |-> 0]

At(t) == [kind |-> "time", t |-> t]

Question(id) == CASE id = 1 -> "q1" [] id = 2 -> "q2" [] OTHER -> "q3"

\* a slim market record as scrape_markets builds it
Mk(id, tok, ev, created, closed) ==
    [conditionId |-> id, question |-> Question(id), tokenId |-> tok,
     event_ids |-> ev, createdAt |-> created, closedTime |-> closed]

\* time is counted in half days: civil day d is [2d, 2d + 2)
DayStart(d) == 2 * d

DayEnd(d) == DayStart(d) + 2

CatShared ==
    <<Mk(1, "t1", {"e1"}, At(0), Absent), Mk(2, "t2", {"e1"}, At(0), Absent),
      Mk(3, "t3", {}, At(0), Absent)>>

CatTokenless ==
    <<Mk(1, "t1", {}, At(0), Absent), Mk(2, NoToken, {}, At(0), Absent),
      Mk(3, "t3", {"e2"}, At(0), Absent)>>

CatWindow ==
    <<Mk(1, "t1", {}, At(0), At(3)), Mk(2, "t2", {}, At(5), Absent),
      Mk(3, "t3", {}, Malformed, Absent)>>

CatNoTokens ==
    <<Mk(1, NoToken, {}, At(0), Malformed), Mk(2, NoToken, {}, At(0), Absent)>>

Catalogs == {CatShared, CatTokenless, CatWindow, CatNoTokens, <<>>}

\* the responses a price request can get, as three-attempt scripts
Fail == [kind |-> "timeout"]

Ok(h) == [kind |-> "ok", hist |-> h]

sBig == <<Ok(<<1001, 80, 0>>), Fail, Fail>>        \* -10.002

sEdge == <<Fail, Ok(<<1001, 96, 5>>), Fail>>       \* -10.0004

sTen == <<Fail, Fail, Ok(<<1000, 0, 600>>)>>       \* -10.0

sMid == <<Ok(<<600, 16, 0>>), Fail, Fail>>         \* -5.9984

sUp == <<Ok(<<0, 5000, 0>>), Fail, Fail>>          \* +0.5

sZero == <<Fail, Fail, Fail>>                      \* 0.0 after three failures

Tokens == {"t1", "t2", "t3"}

Scen(a, b, c) == [tok \in Tokens |-> CASE tok = "t1" -> a [] tok = "t2" -> b [] OTHER -> c]

\* what the price endpoint answers, per token, during one run
Scenarios ==
    {Scen(sBig, sBig, sBig), Scen(sBig, sMid, sMid), Scen(sEdge, sEdge, sZero),
     Scen(sTen, sUp, sBig), Scen(sZero, sZero, sZero), Scen(sMid, sBig, sUp)}

\* what block resolution and the query do on the pages of one get_ois call
OisEnvs ==
    {<<>>, <<[blockOk |-> FALSE, gqlOk |-> TRUE]>>, <<[blockOk |-> TRUE, gqlOk |-> FALSE]>>,
     <<[blockOk |-> TRUE, gqlOk |-> TRUE], [blockOk |-> FALSE, gqlOk |-> TRUE]>>}

\* the subgraph's descending-amount order of the market ids at one block
Rankings ==
    {r \in SeqsUpTo(1..3, 3) : \A i, j \in 1..Len(r) : i # j => r[i] # r[j]}

RowsOf(ranking) ==
    [i \in 1..Len(ranking) |->
        [id |-> ranking[i], amount |-> IF i = 1 THEN 50000000 ELSE 30000000]]

\* the rows matching `where: {id_in: $conditionIds}`
RECURSIVE RowsIn(_, _)
RowsIn(rows, ids) ==
    IF rows = <<>> THEN <<>>
    ELSE IF Head(rows).id \in ids THEN <<Head(rows)>> \o RowsIn(Tail(rows), ids)
    ELSE RowsIn(Tail(rows), ids)

\* ------------------------------------------------------------------------
\* filter_markets_by_date                     main/scraper.py 91-135
\* ------------------------------------------------------------------------
KeepMarket(m, start_date, end_date) ==
    /\ m.createdAt.kind = "time"
    /\ ~(m.createdAt.t > end_date)
    /\ ~(m.closedTime.kind = "time" /\ m.closedTime.t < start_date)

RECURSIVE filter_markets_by_date(_, _, _)
filter_markets_by_date(all_markets_data, start_date, end_date) ==
    IF all_markets_data = <<>> THEN <<>>
    ELSE LET m == Head(all_markets_data)
             rest == filter_markets_by_date(Tail(all_markets_data), start_date, end_date)
         IN  IF KeepMarket(m, start_date, end_date) THEN <<m>> \o rest ELSE rest

\* an ISO string without a UTC offset: fromisoformat parses it to a naive
\* datetime, and comparing that with the offset-aware start_date / end_date
\* the callers pass raises TypeError
Naive(t) == [kind |-> "naive", t |-> t]

\* line 111: `created > end_date` stands outside the try of lines 107-110
CreatedRaises(m) == m.createdAt.kind = "naive"

\* the call as a whole: the loop raises at the first market whose createdAt
\* cannot be compared, otherwise the list is returned
FilterOutcome(all_markets_data, start_date, end_date) ==
    IF \E i \in 1..Len(all_markets_data) : CreatedRaises(all_markets_data[i])
    THEN [raised |-> TRUE, value |-> <<>>]
    ELSE [raised |-> FALSE,
          value |-> filter_markets_by_date(all_markets_data, start_date, end_date)]

\* the createdAt / closedTime values a catalog file can hold, around a window
\* [start, end]: missing, malformed, without offset, and with offset on
\* either side of the bound and on it
CreatedValues(end) == {Absent, Malformed, Naive(end), At(end), At(end + 1)}

ClosedValues(start) == {Absent, Malformed, Naive(start - 1), At(start - 1), At(start)}

FilterCatalogs(start, end) ==
    UNION {[1..n -> CreatedValues(end) \X ClosedValues(start)] : n \in 0..MaxMarkets}

FilterMarket(i, pair) == Mk(i, NoToken, {}, pair[1], pair[2])

FilterInit ==
    /\ PriceIdle
    /\ OisIdle
    /\ ScoreIdle
    /\ BlockIdle
    /\ flt_pc = "call"
    /\ \E d \in 1..MaxDay :
         /\ flt_start = DayStart(d)
         /\ flt_end = DayEnd(d)
    /\ \E c \in FilterCatalogs(flt_start, flt_end) :
         flt_markets = [i \in 1..Len(c) |-> FilterMarket(i, c[i])]
    /\ flt_out = <<>>

FilterCall ==
    /\ flt_pc = "call"
    /\ LET out == FilterOutcome(flt_markets, flt_start, flt_end)
       IN  /\ flt_pc' = IF out.raised THEN "raised" ELSE "returned"
           /\ flt_out' = out.value
    /\ UNCHANGED <<flt_markets, flt_start, flt_end>>
    /\ UNCHANGED <<priceVars, oisVars, scoreVars, blockVars>>

FilterNext == FilterCall

SpecFilter == FilterInit /\ [][FilterNext]_vars

\* a createdAt / closedTime field that fromisoformat parses
Parseable(f) == f.kind \in {"time", "naive"}

Eligible(m, start_date, end_date) ==
    /\ Parseable(m.createdAt)
    /\ m.createdAt.t <= end_date
    /\ \/ ~Parseable(m.closedTime)
       \/ m.closedTime.t >= start_date

HasNaive(list) ==
    \E i \in 1..Len(list) : list[i].createdAt.kind = "naive" \/ list[i].closedTime.kind = "naive"

\* C12: filter_markets_by_date returns, in catalog order, exactly the markets
\* with a parseable createdAt <= end and a closedTime that is absent,
\* unparseable or >= start.
C12_FilterExact ==
    flt_pc \in {"returned", "raised"} =>
        /\ flt_pc = "returned"
        /\ flt_out = SelectSeq(flt_markets, LAMBDA m : Eligible(m, flt_start, flt_end))

\* the same statement for catalogs whose timestamps all carry a UTC offset
C12_FilterExactWithOffset ==
    (flt_pc \in {"returned", "raised"} /\ ~HasNaive(flt_markets)) =>
        /\ flt_pc = "returned"
        /\ flt_out = SelectSeq(flt_markets, LAMBDA m : Eligible(m, flt_start, flt_end))

\* ------------------------------------------------------------------------
\* get_block_number                              main/utils.py 64-105
\* ------------------------------------------------------------------------
\* what a request can come to.  RequestFailures raise a RequestException
\* inside the try (requests_get, raise_for_status); the other kinds are
\* decoded JSON bodies: status "1" with a result; a message holding
\* "Max rate limit reached"; another body whose status is not "1"; a body
\* the code cannot read (no "status" key, a result that int() rejects),
\* whose KeyError / ValueError is no RequestException
RequestFailures == {"connection_error", "timeout", "http_error"}

\* the decimal strings a result field holds, as digit sequences
BlockResults == {<<7>>, <<1, 2>>}

\* int(data["result"])
RECURSIVE ParseInt(_)
ParseInt(digits) ==
    IF digits = <<>> THEN 0
    ELSE 10 * ParseInt(SubSeq(digits, 1, Len(digits) - 1)) + digits[Len(digits)]

BlockResponses ==
    [kind : RequestFailures \cup {"rate_limited", "api_error", "bad_body"}, result : {<<>>}]
        \cup [kind : {"ok"}, result : BlockResults]

\* line 71: `if not api_key`
KeyMissing(key) == key \in {"unset", "empty"}

\* every response but a block number reaches the except clause
ReachesHandlerAnyError(kind) == kind # "ok"

\* lines 92-97: the responses that reach `except RequestException`
ReachesHandler(kind) == kind \in RequestFailures \cup {"rate_limited"}

\* one iteration of the loop body for `attempt` (1..MAX_RETRIES) with the
\* response `resp`: "return" a value, "retry" after a sleep, or "raise"
BlockAttempt(resp, att) ==
    IF resp.kind = "ok"
    THEN [outcome |-> "return", value |-> Some(ParseInt(resp.result))]
    ELSE IF ReachesHandler(resp.kind)
    THEN IF att < MAX_RETRIES
         THEN [outcome |-> "retry", value |-> None]
         ELSE [outcome |-> "return", value |-> None]
    ELSE IF resp.kind = "api_error"
    THEN [outcome |-> "return", value |-> None]
    ELSE [outcome |-> "raise", value |-> None]

BlockInit ==
    /\ PriceIdle
    /\ OisIdle
    /\ ScoreIdle
    /\ FilterIdle
    /\ blk_pc = "call"
    /\ blk_key \in {"unset", "empty", "set"}
    /\ blk_attempt = 1
    /\ blk_slept = 0
    /\ blk_log = <<>>
    /\ blk_result = None

\* lines 68-72: the key check
BlockCall ==
    /\ blk_pc = "call"
    /\ blk_pc' = IF KeyMissing(blk_key) THEN "returned" ELSE "request"
    /\ UNCHANGED <<blk_key, blk_attempt, blk_slept, blk_log, blk_result>>
    /\ UNCHANGED <<priceVars, oisVars, scoreVars, filterVars>>

\* lines 85-103: the request of the current attempt and what follows it
BlockRequest ==
    /\ blk_pc = "request"
    /\ blk_attempt <= MAX_RETRIES
    /\ \E resp \in BlockResponses :
         LET step == BlockAttempt(resp, blk_attempt)
         IN  /\ blk_log' = Append(blk_log, resp)
             /\ blk_result' = IF step.outcome = "return" THEN step.value ELSE blk_result
             /\ blk_pc' = CASE step.outcome = "return" -> "returned"
                            [] step.outcome = "retry"  -> "sleep"
                            [] OTHER                   -> "raised"
    /\ UNCHANGED <<blk_key, blk_attempt, blk_slept>>
    /\ UNCHANGED <<priceVars, oisVars, scoreVars, filterVars>>

\* line 100: time.sleep(RETRY_DELAY), then the next attempt
BlockSleep ==
    /\ blk_pc = "sleep"
    /\ blk_slept' = blk_slept + RETRY_DELAY
    /\ blk_attempt' = blk_attempt + 1
    /\ blk_pc' = "request"
    /\ UNCHANGED <<blk_key, blk_log, blk_result>>
    /\ UNCHANGED <<priceVars, oisVars, scoreVars, filterVars>>

BlockNext == BlockCall \/ BlockRequest \/ BlockSleep

SpecBlock == BlockInit /\ [][BlockNext]_vars

\* ------------------------------------------------------------------------
\* process_single_day        scripts/backfill.py 24-57, main/backfill.py 24-46
\* ------------------------------------------------------------------------
\* a dict keyed by conditionId built from a list: the last market wins
LastWith(list, id) ==
    LET idx == {i \in 1..Len(list) : list[i].conditionId = id}
    IN  list[CHOOSE i \in idx : \A j \in idx : j <= i]

HasId(list, id) == \E i \in 1..Len(list) : list[i].conditionId = id

\* line 34: id_map, the markets of the day that have a tokenId
WithToken(list) == SelectSeq(list, LAMBDA m : m.tokenId # NoToken)

IdMapSource(list) == WithToken(list)

\* lines 40-55 (scripts): the members that resolve a token, with their
\* rounded price change; raw keeps the unrounded change
RECURSIVE ResolveMembers(_, _, _)
ResolveMembers(top, id_map, scen) ==
    IF top = <<>> THEN <<>>
    ELSE LET cond_id == Head(top).id
             rest == ResolveMembers(Tail(top), id_map, scen)
         IN  IF ~HasId(id_map, cond_id) THEN rest
             ELSE LET m == LastWith(id_map, cond_id)
                      change == get_day_price_change(scen[m.tokenId])
                  IN  <<[conditionId |-> cond_id, tokenId |-> m.tokenId,
                         question |-> m.question, priceChange |-> Round3(change),
                         raw |-> change]>> \o rest

SumAbsChange(members) ==
    SumSeq([i \in 1..Len(members) |-> Abs(members[i].priceChange)])

SumRaw(members) == SumSeq([i \in 1..Len(members) |-> members[i].raw])

SumAbsRaw(members) == SumSeq([i \in 1..Len(members) |-> Abs(members[i].raw)])

\* the ranking call of line 36
DayTop(day, all_markets, ranking, env) ==
    LET day_markets == filter_markets_by_date(all_markets, DayStart(day), DayEnd(day))
        mkts == GivenMarkets(day_markets)
    IN  get_ois(mkts, RowsIn(RowsOf(ranking), condition_ids(mkts)), TRUE, TopN, env)

\* scripts/backfill.py: (day_str, round(avg, 3), top10_with_changes)
process_single_day(day, all_markets, ranking, env, scen) ==
    LET day_markets == filter_markets_by_date(all_markets, DayStart(day), DayEnd(day))
        id_map == IdMapSource(day_markets)
        top == DayTop(day, all_markets, ranking, env)
        top10_with_changes == ResolveMembers(top, id_map, scen)
        n == Len(top10_with_changes)
    IN  IF top = <<>> THEN [day |-> day, value |-> 0, top10 |-> <<>>, top |-> top]
        ELSE [day |-> day,
              value |-> IF n > 0 THEN RoundHalfEven(SumAbsChange(top10_with_changes), n)
                        ELSE 0,
              top10 |-> top10_with_changes, top |-> top]

\* main/backfill.py: (day_str, round(avg, 3)); top10 keeps what the list
\* comprehension of lines 40-44 ranged over
process_single_day_main(day, all_markets, ranking, env, scen) ==
    LET day_markets == filter_markets_by_date(all_markets, DayStart(day), DayEnd(day))
        id_map == IdMapSource(day_markets)
        top == DayTop(day, all_markets, ranking, env)
        changes == ResolveMembers(top, id_map, scen)
        n == Len(changes)
    IN  IF top = <<>> THEN [day |-> day, value |-> 0, top10 |-> <<>>, top |-> top]
        ELSE [day |-> day,
              value |-> IF n > 0 THEN RoundHalfEven(SumRaw(changes), RawPerMilli * n)
                        ELSE 0,
              top10 |-> changes, top |-> top]

\* ------------------------------------------------------------------------
\* highlight events          scripts/backfill.py 94-108, hourly-update.py 74-86
\* ------------------------------------------------------------------------
\* sorted(..., key=abs(priceChange), reverse=True): a stable insertion
RECURSIVE InsertByAbs(_, _)
InsertByAbs(sorted, m) ==
    IF sorted = <<>> THEN <<m>>
    ELSE IF Abs(Head(sorted).priceChange) >= Abs(m.priceChange)
    THEN <<Head(sorted)>> \o InsertByAbs(Tail(sorted), m)
    ELSE <<m>> \o sorted

RECURSIVE SortByAbsDesc(_)
SortByAbsDesc(ms) ==
    IF ms = <<>> THEN <<>>
    ELSE InsertByAbs(SortByAbsDesc(SubSeq(ms, 1, Len(ms) - 1)), ms[Len(ms)])

IsMover(priceChange) == Abs(priceChange) > MoverThreshold * MilliPerUnit

AboveThresholdInclusive(v) == v >= ValueThreshold * MilliPerUnit

AboveThreshold(v) == v > ValueThreshold * MilliPerUnit

\* members: records with a priceChange (0 where the key is missing)
HighlightEvents(v, members) ==
    IF ~AboveThreshold(v) THEN <<>>
    ELSE LET movers == SortByAbsDesc(SelectSeq(members, LAMBDA m : IsMover(m.priceChange)))
         IN  [i \in 1..Len(movers) |->
                 [title |-> movers[i].question, value |-> movers[i].priceChange]]

\* ------------------------------------------------------------------------
\* backfill_scores           scripts/backfill.py 67-115, main/backfill.py 56-86
\* ------------------------------------------------------------------------
Entry(day, v, events) == [time |-> day, value |-> v, events |-> events]

\* sorted(results, key=lambda t: t[0]): a stable insertion by day
RECURSIVE InsertByDay(_, _)
InsertByDay(sorted, r) ==
    IF sorted = <<>> THEN <<r>>
    ELSE IF Head(sorted).day <= r.day
    THEN <<Head(sorted)>> \o InsertByDay(Tail(sorted), r)
    ELSE <<r>> \o sorted

\* the results in descending order of their position
ReverseOrder(rs) == [i \in 1..Len(rs) |-> rs[Len(rs) + 1 - i]]

RECURSIVE SortByDay(_)
SortByDay(rs) ==
    IF rs = <<>> THEN <<>>
    ELSE InsertByDay(SortByDay(SubSeq(rs, 1, Len(rs) - 1)), rs[Len(rs)])

\* scripts/backfill.py lines 91-109
BuildSeries(rs) ==
    LET sorted == SortByDay(rs)
    IN  [i \in 1..Len(sorted) |->
            Entry(sorted[i].day, sorted[i].value,
                  HighlightEvents(sorted[i].value, sorted[i].top10))]

\* main/backfill.py line 80
BuildSeriesMain(rs) ==
    LET sorted == SortByDay(rs)
    IN  [i \in 1..Len(sorted) |-> Entry(sorted[i].day, sorted[i].value, <<>>)]

\* the dates list of lines 81-85: start_date .. end_date inclusive
DateRange(start, end) == [i \in 1..(end - start + 1) |-> start + i - 1]

BackfillInit ==
    /\ PriceIdle
    /\ UtilIdle
    /\ OisIdle
    /\ program \in {"backfill", "backfill_main"}
    /\ catalog \in Catalogs
    /\ \E start \in 1..MaxDay, end \in 1..MaxDay :
         /\ start <= end
         /\ dates = DateRange(start, end)
    /\ results = [i \in 1..Len(dates) |-> <<>>]
    /\ completed = <<>>
    /\ outSeries = <<>>
    /\ bf_pc = "pool"
    /\ clockDay = 1
    /\ snapshot = NoFile
    /\ scoresFile = <<>>
    /\ lastRun = NoRun

\* a pool worker runs process_single_day for one entry of `dates`
ProcessDay ==
    /\ program \in {"backfill", "backfill_main"}
    /\ bf_pc = "pool"
    /\ \E i \in 1..Len(dates), ranking \in Rankings, env \in OisEnvs, scen \in Scenarios :
         /\ results[i] = <<>>
         /\ results' = [results EXCEPT ![i] =
                <<IF program = "backfill"
                  THEN process_single_day(dates[i], catalog, ranking, env, scen)
                  ELSE process_single_day_main(dates[i], catalog, ranking, env, scen)>>]
         /\ completed' = Append(completed, i)
    /\ UNCHANGED <<program, catalog, dates, outSeries, bf_pc, clockDay, snapshot,
                   scoresFile, lastRun>>
    /\ UNCHANGED <<priceVars, oisVars, utilVars>>

\* starmap has returned every result, in the order of `dates`; the series
\* is built and written
WriteSeries ==
    /\ program \in {"backfill", "backfill_main"}
    /\ bf_pc = "pool"
    /\ \A i \in 1..Len(dates) : results[i] # <<>>
    /\ LET rs == [i \in 1..Len(dates) |-> results[i][1]]
       IN  outSeries' = IF program = "backfill" THEN BuildSeries(rs) ELSE BuildSeriesMain(rs)
    /\ bf_pc' = "written"
    /\ UNCHANGED <<program, catalog, dates, results, completed, clockDay, snapshot, scoresFile, lastRun>>
    /\ UNCHANGED <<priceVars, oisVars, utilVars>>

\* ------------------------------------------------------------------------
\* hourly update     scripts/hourly-update.py 19-107, main/scripts/hourly-update.py 19-77
\* ------------------------------------------------------------------------
\* line 27: snapshot_file.exists()
SnapshotNeverExists(file) == FALSE

SnapshotExists(file) == file.exists

\* lines 30-42: the snapshot built from a fresh scrape and ranking
NewSnapshot(mkts, ranking, env) ==
    LET given == GivenMarkets(mkts)
        top_oi == get_ois(given, RowsIn(RowsOf(ranking), condition_ids(given)),
                          TRUE, TopN, env)
    IN  [i \in 1..Len(top_oi) |->
            LET cond == top_oi[i].id
                known == HasId(mkts, cond)
            IN  [conditionId |-> cond,
                 tokenId |-> IF known THEN LastWith(mkts, cond).tokenId ELSE NoToken,
                 question |-> IF known THEN LastWith(mkts, cond).question ELSE "None",
                 openInterest |-> top_oi[i].amount,
                 hasChange |-> FALSE, priceChange |-> 0]]

\* lines 54-66: each member with its change recomputed (raw: unrounded)
Recompute(top10, scen) ==
    [i \in 1..Len(top10) |->
        LET m == top10[i]
        IN  IF m.tokenId = NoToken
            THEN [member |-> m, resolved |-> FALSE, raw |-> 0]
            ELSE LET change == get_day_price_change(scen[m.tokenId])
                 IN  [member |-> [m EXCEPT !.hasChange = TRUE,
                                           !.priceChange = Round3(change)],
                      resolved |-> TRUE, raw |-> change]]

\* line 71 (scripts), line 62 (main): the divisor of the average
Divisor(computed) == Len(computed)

\* lines 101-104: replace the last entry when it is today's, else append
AppendAlways(series, today_entry) == Append(series, today_entry)

PutToday(series, today_entry) ==
    IF series # <<>> /\ series[Len(series)].time = today_entry.time
    THEN [series EXCEPT ![Len(series)] = today_entry]
    ELSE Append(series, today_entry)

\* main/scripts/hourly-update.py lines 70-73: only the value is assigned
AppendAlwaysMain(series, day, avg) == Append(series, [time |-> day, value |-> avg, events |-> <<>>])

PutTodayMain(series, day, avg) ==
    IF series # <<>> /\ series[Len(series)].time = day
    THEN [series EXCEPT ![Len(series)].value = avg]
    ELSE Append(series, Entry(day, avg, <<>>))

\* a snapshot file written only when the ranking has members
SnapshotWrittenIfAny(top10) == [exists |-> top10 # <<>>, members |-> top10]

\* lines 43-46: the snapshot file after write_text, and what is read back;
\* the file is written whatever the ranking holds
SnapshotWritten(top10) == [exists |-> TRUE, members |-> top10]

\* the run from line 47 on, for the snapshot `top10` read back from the file
HourlyBody(day, top10, scen, didScrape) ==
    LET computed == Recompute(top10, scen)
        updated_top10 == [i \in 1..Len(computed) |-> computed[i].member]
        total_abs == SumSeq([i \in 1..Len(computed) |-> Abs(computed[i].raw)])
        total == SumSeq([i \in 1..Len(computed) |-> computed[i].raw])
        avg == RoundHalfEven(IF program = "hourly" THEN total_abs ELSE total,
                             RawPerMilli * Divisor(computed))
        events == HighlightEvents(avg, Truncate(updated_top10, TopN))
    IN  IF top10 = <<>>
        THEN /\ snapshot' = SnapshotWritten(top10)
             /\ scoresFile' = scoresFile
             /\ lastRun' = [ran |-> TRUE, scraped |-> didScrape, ranked |-> didScrape,
                            wrote |-> FALSE]
        ELSE /\ snapshot' = [exists |-> TRUE,
                             members |-> IF program = "hourly" THEN updated_top10 ELSE top10]
             /\ scoresFile' = IF program = "hourly"
                              THEN PutToday(scoresFile, Entry(day, avg, events))
                              ELSE PutTodayMain(scoresFile, day, avg)
             /\ lastRun' = [ran |-> TRUE, scraped |-> didScrape, ranked |-> didScrape,
                            wrote |-> TRUE]

HourlyPrograms == {"hourly", "hourly_main"}

\* one run of main() on a day that has no snapshot file yet
HourlyFirstRun ==
    /\ program \in HourlyPrograms
    /\ ~SnapshotExists(snapshot)
    /\ \E mkts \in Catalogs, ranking \in Rankings, env \in OisEnvs, scen \in Scenarios :
         HourlyBody(clockDay, NewSnapshot(mkts, ranking, env), scen, TRUE)
    /\ UNCHANGED <<program, catalog, dates, results, completed, outSeries, bf_pc, clockDay>>
    /\ UNCHANGED <<priceVars, oisVars, utilVars>>

\* one run of main() on a day whose snapshot file exists
HourlyLaterRun ==
    /\ program \in HourlyPrograms
    /\ SnapshotExists(snapshot)
    /\ \E scen \in Scenarios :
         HourlyBody(clockDay, snapshot.members, scen, FALSE)
    /\ UNCHANGED <<program, catalog, dates, results, completed, outSeries, bf_pc, clockDay>>
    /\ UNCHANGED <<priceVars, oisVars, utilVars>>

\* midnight passes between two runs: the new day has no snapshot file
Midnight ==
    /\ program \in HourlyPrograms
    /\ clockDay < MaxDay
    /\ clockDay' = clockDay + 1
    /\ snapshot' = NoFile
    /\ UNCHANGED <<program, catalog, dates, results, completed, outSeries, bf_pc, scoresFile, lastRun>>
    /\ UNCHANGED <<priceVars, oisVars, utilVars>>

HourlyInit ==
    /\ PriceIdle
    /\ UtilIdle
    /\ OisIdle
    /\ program \in HourlyPrograms
    /\ catalog = <<>>
    /\ dates = <<>>
    /\ results = <<>>
    /\ completed = <<>>
    /\ outSeries = <<>>
    /\ bf_pc = "idle"
    /\ clockDay = 1
    /\ snapshot = NoFile
    /\ scoresFile = <<>>
    /\ lastRun = NoRun

ScoreInit == BackfillInit \/ HourlyInit

ScoreNext == ProcessDay \/ WriteSeries \/ HourlyFirstRun \/ HourlyLaterRun \/ Midnight

SpecScore == ScoreInit /\ [][ScoreNext]_vars

\* ------------------------------------------------------------------------
\* Claims about the day score, the highlight events and the hourly update
\* ------------------------------------------------------------------------
Backfills == {"backfill", "backfill_main"}

DoneResults == {results[i][1] : i \in {j \in 1..Len(results) : results[j] # <<>>}}

\* the ranked members of a result whose conditionId has a token id in the
\* day's filtered catalog
ExpectedResolvedIds(r) ==
    LET id_map == WithToken(filter_markets_by_date(catalog, DayStart(r.day), DayEnd(r.day)))
    IN  SelectSeq([i \in 1..Len(r.top) |-> r.top[i].id], LAMBDA id : HasId(id_map, id))

MeanAbs(members) ==
    IF members = <<>> THEN 0 ELSE RoundHalfEven(SumAbsChange(members), Len(members))

DayValueIsMeanAbs(r) ==
    /\ r.value >= 0
    /\ [i \in 1..Len(r.top10) |-> r.top10[i].conditionId] = ExpectedResolvedIds(r)
    /\ r.value = MeanAbs(r.top10)

\* C1: for every day and catalog the value process_single_day returns is
\* non-negative and is the mean of the absolute price changes over exactly
\* the ranked members whose conditionId has a token id in the day's filtered
\* catalog; it is 0.0 when the ranking is empty or no member resolves.
C1_DayValue ==
    program \in Backfills => \A r \in DoneResults : DayValueIsMeanAbs(r)

\* the same statement for scripts/backfill.py alone
C1_DayValueScripts ==
    program = "backfill" => \A r \in DoneResults : DayValueIsMeanAbs(r)

\* the entry of the series and the members it was computed from
HasEvents(e) == e.events # <<>>

EventsAsRounded(e, members) ==
    /\ HasEvents(e) <=>
          /\ e.value > 8 * MilliPerUnit
          /\ \E i \in 1..Len(members) : Abs(members[i].priceChange) > 10 * MilliPerUnit
    /\ \A i \in 1..Len(e.events) : Abs(e.events[i].value) > 10 * MilliPerUnit
    /\ e.value = 8 * MilliPerUnit => ~HasEvents(e)

\* the hourly run of scripts/hourly-update.py has written today's entry
\* from the snapshot now in the file
TodayWritten ==
    /\ program = "hourly"
    /\ snapshot.exists
    /\ snapshot.members # <<>>

LastEntry == scoresFile[Len(scoresFile)]

\* C4 (as amended): an entry of the backfill series or of the hourly update
\* carries events exactly when its value as written (the mean rounded to 3
\* decimals) is > 8 and at least one member's recorded priceChange (the
\* change rounded to 3 decimals) has an absolute value > 10; an entry of
\* value exactly 8.0 has none, and no listed event has abs(value) <= 10.
C4_EventsIffRounded ==
    /\ (program = "backfill" /\ bf_pc = "written") =>
          \A i \in 1..Len(outSeries) :
              /\ outSeries[i].time = results[i][1].day
              /\ EventsAsRounded(outSeries[i], results[i][1].top10)
    /\ TodayWritten =>
          /\ LastEntry.time = clockDay
          /\ EventsAsRounded(LastEntry, snapshot.members)

\* a written backfill series with a day of value exactly 8.0 that has a
\* member above 10 and no events, and another day that has events
C4_Witness ==
    /\ program = "backfill"
    /\ bf_pc = "written"
    /\ \E i \in 1..Len(outSeries) :
         /\ outSeries[i].value = 8 * MilliPerUnit
         /\ ~HasEvents(outSeries[i])
         /\ \E k \in 1..Len(results[i][1].top10) :
              Abs(results[i][1].top10[k].priceChange) > 10 * MilliPerUnit
    /\ \E j \in 1..Len(outSeries) : HasEvents(outSeries[j])

\* C4 (as claimed), on the backfill series: the entry carries events exactly
\* when the mean of the absolute changes is > 8 and at least one resolved
\* member has abs(change) > 10, change being the value
\* get_day_price_change returned.
C4_EventsIffUnrounded ==
    (program = "backfill" /\ bf_pc = "written") =>
        \A i \in 1..Len(outSeries) :
            LET members == results[i][1].top10
            IN  HasEvents(outSeries[i]) <=>
                   /\ SumAbsRaw(members) > 8 * MilliPerUnit * RawPerMilli * Len(members)
                   /\ \E k \in 1..Len(members) :
                        Abs(members[k].raw) > 10 * MilliPerUnit * RawPerMilli

\* C7: in the hourly update the value written for today is the mean of
\* abs(priceChange) over exactly the snapshot members that have a token id.
C7_MeanOverResolved ==
    TodayWritten =>
        LastEntry.value = MeanAbs(SelectSeq(snapshot.members, LAMBDA m : m.tokenId # NoToken))

StaticFields(m) ==
    [conditionId |-> m.conditionId, tokenId |-> m.tokenId, question |-> m.question,
     openInterest |-> m.openInterest]

StaticPart(members) == [i \in 1..Len(members) |-> StaticFields(members[i])]

\* C8: once a snapshot exists for a civil day, a later hourly run on that
\* day neither scrapes the markets nor ranks open interest, and leaves the
\* snapshot's sequence of conditionIds (and every field but priceChange) as
\* it was.
C8_SnapshotFixed ==
    [][(program \in HourlyPrograms /\ snapshot.exists /\ clockDay' = clockDay) =>
          /\ ~lastRun'.scraped
          /\ ~lastRun'.ranked
          /\ snapshot'.exists
          /\ StaticPart(snapshot'.members) = StaticPart(snapshot.members)]_vars

\* a later run of the day has recomputed the changes of an existing snapshot
C8_Witness ==
    /\ program = "hourly"
    /\ lastRun.ran
    /\ ~lastRun.scraped
    /\ Len(snapshot.members) = 2
    /\ \E i \in 1..2 : snapshot.members[i].hasChange

\* C9: an hourly update that reaches the write step changes the series only
\* at its tail: when the last entry is today's it is replaced and the length
\* stays, otherwise today's entry is appended and the length grows by one;
\* every other entry keeps its content and position.
C9_TailOnly ==
    [][(program \in HourlyPrograms /\ clockDay' = clockDay /\ lastRun'.wrote) =>
          LET n == Len(scoresFile)
              replace == n > 0 /\ scoresFile[n].time = clockDay
              m == IF replace THEN n ELSE n + 1
          IN  /\ Len(scoresFile') = m
              /\ \A i \in 1..(m - 1) : scoresFile'[i] = scoresFile[i]
              /\ scoresFile'[m].time = clockDay]_vars

\* a later run replaced today's entry behind an entry of the day before
C9_Witness ==
    /\ program \in HourlyPrograms
    /\ lastRun.wrote
    /\ ~lastRun.scraped
    /\ Len(scoresFile) = 2
    /\ scoresFile[2].time = clockDay

\* C10: from an empty series, after any sequence of hourly updates under a
\* clock that never goes backwards, the series is strictly ascending by
\* time, so it holds at most one entry per civil day.
C10_SortedOnePerDay ==
    program \in HourlyPrograms =>
        \A i, j \in 1..Len(scoresFile) : i < j => scoresFile[i].time < scoresFile[j].time

\* entries of two days, written by runs on day 1 and on day 2
C10_Witness ==
    /\ program \in HourlyPrograms
    /\ Len(scoresFile) = 2
    /\ scoresFile[1].time = 1
    /\ scoresFile[2].time = 2
    /\ clockDay = 2

\* the entry a backfill of that one day alone writes for the result r
EntryAlone(r) ==
    IF program = "backfill" THEN BuildSeries(<<r>>)[1] ELSE BuildSeriesMain(<<r>>)[1]

SeriesSortedPerDay ==
    (program \in Backfills /\ bf_pc = "written") =>
        /\ Len(outSeries) = Len(dates)
        /\ \A i, j \in 1..Len(outSeries) : i < j => outSeries[i].time < outSeries[j].time
        /\ \A i \in 1..Len(outSeries) :
              /\ outSeries[i].time = dates[i]
              /\ results[i][1].day = dates[i]
              /\ outSeries[i] = EntryAlone(results[i][1])

\* a worker that finishes a day writes that day's result and nothing else:
\* the catalog and the results of the other days stay as they were
WorkerFrame ==
    (program \in Backfills /\ bf_pc = "pool" /\ completed' # completed) =>
        LET i == completed'[Len(completed')]
        IN  /\ catalog' = catalog
            /\ results[i] = <<>>
            /\ results'[i][1].day = dates[i]
            /\ \A j \in 1..Len(dates) : j # i => results'[j] = results[j]

\* C11: in a backfill over a list of days run by parallel workers, for every
\* order in which the workers complete, the written series is sorted
\* ascending by date and the entry of each day is the one that day's own
\* result gives alone; no worker touches the catalog or another day's result.
C11_OrderIndependent ==
    /\ []SeriesSortedPerDay
    /\ [][WorkerFrame]_vars

\* a series of two days, written after the worker of the second day finished
\* first, whose two entries differ in value
C11_Witness ==
    /\ program \in Backfills
    /\ bf_pc = "written"
    /\ completed = <<2, 1>>
    /\ outSeries[1].value # outSeries[2].value

\* a request failure or a rate-limit response
MayRetry(resp) == resp.kind \in RequestFailures \cup {"rate_limited"}

LastBlockResp == blk_log[Len(blk_log)]

\* C14: get_block_number returns None without sending a request when the
\* API key is absent; otherwise it sends at most 3 requests, retries after
\* the 1-unit delay only on a request failure or a rate-limit response,
\* returns the block number on the first response with status "1", returns
\* None at once on any other API error response, and returns None after the
\* third failed attempt.
C14_BlockRetryContract ==
    /\ Len(blk_log) <= 3
    /\ KeyMissing(blk_key) =>
          /\ blk_log = <<>>
          /\ blk_pc \in {"call", "returned"}
          /\ blk_result = None
    /\ \A i \in 1..(Len(blk_log) - 1) : MayRetry(blk_log[i])
    /\ blk_pc = "request" => blk_slept = Len(blk_log)
    /\ blk_pc = "sleep" =>
          /\ blk_slept = Len(blk_log) - 1
          /\ Len(blk_log) < 3
          /\ MayRetry(LastBlockResp)
    /\ (blk_pc = "returned" /\ blk_log # <<>>) =>
          /\ blk_slept = Len(blk_log) - 1
          /\ LastBlockResp.kind = "ok" => blk_result = Some(ParseInt(LastBlockResp.result))
          /\ LastBlockResp.kind = "api_error" => blk_result = None
          /\ MayRetry(LastBlockResp) => Len(blk_log) = 3 /\ blk_result = None
          /\ LastBlockResp.kind # "bad_body"
    /\ blk_pc = "raised" => LastBlockResp.kind = "bad_body"

\* a call that met a timeout, then a rate limit, slept twice and got block
\* 12 from its third request
C14_Witness ==
    /\ blk_pc = "returned"
    /\ blk_key = "set"
    /\ Len(blk_log) = 3
    /\ blk_log[1].kind = "timeout"
    /\ blk_log[2].kind = "rate_limited"
    /\ blk_log[3].kind = "ok"
    /\ blk_result = Some(12)
    /\ blk_slept = 2

EmptySnapshot == snapshot.exists /\ snapshot.members = <<>>

HasEntryFor(series, d) == \E i \in 1..Len(series) : series[i].time = d

\* a run that ranked and stopped without writing leaves an empty snapshot
\* file behind
EmptyRankingPersisted ==
    (program \in HourlyPrograms /\ lastRun' # lastRun /\ lastRun'.ranked /\ ~lastRun'.wrote) =>
        /\ snapshot'.exists
        /\ snapshot'.members = <<>>

\* a run that finds the empty snapshot of today does nothing
EmptySnapshotRunIdle ==
    (program \in HourlyPrograms /\ EmptySnapshot /\ clockDay' = clockDay) =>
        /\ ~lastRun'.scraped
        /\ ~lastRun'.ranked
        /\ ~lastRun'.wrote
        /\ snapshot' = snapshot
        /\ scoresFile' = scoresFile

\* no step adds an entry for a day other than the day of the run, nor for
\* today while today's snapshot is empty
NoEntryAdded ==
    program \in HourlyPrograms =>
        \A d \in 1..MaxDay :
            (~HasEntryFor(scoresFile, d) /\ (d # clockDay' \/ (d = clockDay /\ EmptySnapshot)))
                => ~HasEntryFor(scoresFile', d)

\* C15: when the first hourly run of a civil day gets an empty ranking it
\* persists an empty snapshot for the day; every later run of that day finds
\* it, returns before computing anything and leaves the series unchanged: no
\* later run of the day ranks again and no entry for the day is ever written.
C15_EmptyDayStaysEmpty ==
    /\ []((program \in HourlyPrograms /\ EmptySnapshot) => ~HasEntryFor(scoresFile, clockDay))
    /\ [][EmptyRankingPersisted /\ EmptySnapshotRunIdle /\ NoEntryAdded]_vars

\* day 2 of a series that holds an entry for day 1: the first run of day 2
\* got an empty ranking, and a later run of day 2 has come and gone
C15_Witness ==
    /\ program \in HourlyPrograms
    /\ clockDay = 2
    /\ EmptySnapshot
    /\ lastRun.ran
    /\ ~lastRun.scraped
    /\ ~lastRun.wrote
    /\ Len(scoresFile) = 1
    /\ scoresFile[1].time = 1

PriceInit ==
    /\ OisIdle
    /\ ScoreIdle
    /\ UtilIdle
    /\ gpc_pc = "request"
    /\ attempt = 0
    /\ sleeps = 0
    /\ respLog = <<>>
    /\ gpcResult = 0

\* requests.get ... inside the try, for the current attempt
PriceRequest ==
    /\ gpc_pc = "request"
    /\ attempt < PriceAttempts
    /\ \E resp \in Responses :
         LET step == PriceAttempt(resp, attempt)
         IN  /\ respLog' = Append(respLog, resp)
             /\ gpcResult' = IF step.outcome = "return" THEN step.value ELSE gpcResult
             /\ gpc_pc' = CASE step.outcome = "return" -> "returned"
                            [] step.outcome = "retry"  -> "sleep"
                            [] OTHER                   -> "raised"
             /\ UNCHANGED <<attempt, sleeps>>
    /\ UNCHANGED <<oisVars, scoreVars, utilVars>>

\* time.sleep(1), then the next iteration
PriceSleep ==
    /\ gpc_pc = "sleep"
    /\ sleeps' = sleeps + 1
    /\ attempt' = attempt + 1
    /\ gpc_pc' = "request"
    /\ UNCHANGED <<respLog, gpcResult>>
    /\ UNCHANGED <<oisVars, scoreVars, utilVars>>

PriceNext == PriceRequest \/ PriceSleep

SpecPrice == PriceInit /\ [][PriceNext]_vars

\* ------------------------------------------------------------------------
\* Claims about get_day_price_change
\* ------------------------------------------------------------------------
IsFailure(resp) == resp.kind # "ok"

LastResp == respLog[Len(respLog)]

\* C5: get_day_price_change never raises to its caller; it makes at most 3
\* request attempts, sleeps once after each failed attempt except the last
\* (so never after the third), returns the result of the first attempt that
\* succeeds, and returns 0.0 after the third consecutive failure.
C5_RetryContract ==
    /\ gpc_pc # "raised"
    /\ Len(respLog) <= 3
    /\ \A i \in 1..(Len(respLog) - 1) : IsFailure(respLog[i])
    /\ gpc_pc = "request" => sleeps = Len(respLog) /\ attempt = Len(respLog)
    /\ gpc_pc = "sleep" =>
          /\ sleeps = Len(respLog) - 1
          /\ Len(respLog) < 3
          /\ IsFailure(LastResp)
    /\ gpc_pc = "returned" =>
          /\ sleeps = Len(respLog) - 1
          /\ ~IsFailure(LastResp) => gpcResult = PriceChangeOf(LastResp.hist)
          /\ IsFailure(LastResp) => Len(respLog) = 3 /\ gpcResult = 0

\* a call that failed three times, slept twice and returned 0.0
C5_Witness ==
    /\ gpc_pc = "returned"
    /\ Len(respLog) = 3
    /\ \A i \in 1..3 : IsFailure(respLog[i])
    /\ respLog[3].kind = "malformed"
    /\ sleeps = 2
    /\ gpcResult = 0

====
